---------------------------- MODULE Spec2Model ----------------------------
(***************************************************************************)
(* A model of the items API: the route table and router_dispatch            *)
(* (router.c), the six handlers with the in-memory item store               *)
(* (handlers.c), and the response formatter (utils.c); and, apart from      *)
(* them, the domain-name validator is_valid_domain (libtld.c).              *)
(*                                                                          *)
(* Strings are TLA+ strings; Ch(s, i) is the i-th byte (1-based).           *)
(* One request is served per step: the transport delivers one               *)
(* MG_EV_HTTP_MSG at a time (main.c, fn) and router_dispatch runs to        *)
(* completion.                                                              *)
(***************************************************************************)
EXTENDS Integers, Sequences, FiniteSets, TLC

VARIABLES
    items,          \* items[0 .. item_count-1], as a sequence of item_t
    next_item_id,   \* static int next_item_id
    last,           \* the request served last and what was sent for it
    assigned,       \* history: every id handed out by next_item_id++, in order
    created,        \* history: the ids carried by the 201 replies, in order
    deleted,        \* history: the ids whose DELETE was answered 200
    domain,         \* the argument of is_valid_domain
    result          \* what is_valid_domain returned; -1 before the call

vars == <<items, next_item_id, last, assigned, created, deleted, domain, result>>

----------------------------------------------------------------------------
(* Program constants *)

MAX_ITEMS == 100

NAME_SIZE == 64

ID_STR_BUF_SIZE == 32

INT_MAX == 2147483647

INT_MIN == (-2147483647) - 1

ITEMS_PREFIX == "/api/v1/items/"

----------------------------------------------------------------------------
(* Bounds of the model *)

\* Spec serves no request that would push next_item_id beyond this.
MaxNextId == 5

\* Longest identifier remainder drawn for the extractor's specification.
MaxRemLen == 2

\* Every string over DomainChars up to this length is drawn for the
\* validator's specification.
MaxDomainLen == 4

----------------------------------------------------------------------------
(* C strings *)

Ch(s, i) == SubSeq(s, i, i)

Min(a, b) == IF a < b THEN a ELSE b

\* strcmp(a, b): 0 exactly when the two C strings are equal; only the
\* comparison with 0 is used by the program, so every other result is 1.
strcmp(a, b) == IF a = b THEN 0 ELSE 1

\* Mongoose's mg_vcmp(const struct mg_str *, const char *): strncmp over the
\* shorter of the two lengths and, when that is 0, the difference of the
\* lengths.  It is 0 exactly when the mg_str equals the C string.  Only the
\* comparison with 0 is used, so a differing byte yields 1.
mg_vcmp(str1, str2) ==
    LET n1 == Len(str1)
        n2 == Len(str2)
        n  == Min(n1, n2)
    IN  IF SubSeq(str1, 1, n) = SubSeq(str2, 1, n) THEN n1 - n2 ELSE 1

DigitChars == {"0", "1", "2", "3", "4", "5", "6", "7", "8", "9"}

DigitVal(c) ==
    CASE c = "0" -> 0 [] c = "1" -> 1 [] c = "2" -> 2 [] c = "3" -> 3
      [] c = "4" -> 4 [] c = "5" -> 5 [] c = "6" -> 6 [] c = "7" -> 7
      [] c = "8" -> 8 [] c = "9" -> 9

\* isspace in the "C" locale
IsSpace(c) == c \in {" ", "\t", "\n", "\r", "\f"}

RECURSIVE SkipSpaces(_, _)
SkipSpaces(s, i) ==
    IF i <= Len(s) /\ IsSpace(Ch(s, i)) THEN SkipSpaces(s, i + 1) ELSE i

\* The digits of s from position i on, accumulated with sign sg (1 or -1).
\* [val, fits, end]: end is the first position not consumed; fits is FALSE
\* once the value has left [INT_MIN, INT_MAX], and val is then meaningless.
\* long is wider than int here (LP64, the gcc build of the makefile), so a
\* value that does not fit an int is either an exact long or strtol's
\* LONG_MAX / LONG_MIN: outside [INT_MIN, INT_MAX] in both cases.
RECURSIVE StrtolDigits(_, _, _, _, _)
StrtolDigits(s, i, sg, acc, fits) ==
    IF i <= Len(s) /\ Ch(s, i) \in DigitChars
    THEN LET d  == DigitVal(Ch(s, i))
             ok == /\ fits
                   /\ IF sg = 1 THEN acc <= (INT_MAX - d) \div 10
                                ELSE acc >= (INT_MIN + d + 9) \div 10
         IN  StrtolDigits(s, i + 1, sg, IF ok THEN acc * 10 + sg * d ELSE 0, ok)
    ELSE [val |-> acc, fits |-> fits, end |-> i]

\* strtol(s, &endptr, 10): leading white space, an optional sign, digits.
\* With no digit at all nothing is consumed: endptr = s (end = 1).
strtol(s) ==
    LET i0  == SkipSpaces(s, 1)
        neg == i0 <= Len(s) /\ Ch(s, i0) = "-"
        i1  == IF i0 <= Len(s) /\ Ch(s, i0) \in {"+", "-"} THEN i0 + 1 ELSE i0
    IN  IF i1 <= Len(s) /\ Ch(s, i1) \in DigitChars
        THEN StrtolDigits(s, i1, IF neg THEN -1 ELSE 1, 0, TRUE)
        ELSE [val |-> 0, fits |-> TRUE, end |-> 1]

----------------------------------------------------------------------------
(* The URI identifier extractor *)

\* get_item_id_from_uri(hm), on hm->uri.  -1 is "invalid".
get_item_id_from_uri(uri) ==
    LET prefix_len == Len(ITEMS_PREFIX)
    IN  IF Len(uri) > prefix_len /\ mg_vcmp(uri, ITEMS_PREFIX) = 0
        THEN LET id_len == Len(uri) - prefix_len
             IN  IF id_len >= ID_STR_BUF_SIZE
                 THEN -1
                 ELSE LET id_str_buf == SubSeq(uri, prefix_len + 1, Len(uri))
                          r          == strtol(id_str_buf)
                      IN  IF \/ r.end = 1
                             \/ r.end <= Len(id_str_buf)
                             \/ ~r.fits
                          THEN -1
                          ELSE r.val
        ELSE -1

----------------------------------------------------------------------------
(* The JSON collaborator (cJSON), as the handlers use it *)

\* A member of a parsed object: t is its cJSON type ("absent" when the
\* object has no such member), s its valuestring, n its number in tenths
\* (valuedouble * 10, so that fractional numbers can be drawn).
Absent == [t |-> "absent", s |-> "", n |-> 0]

JString(str) == [t |-> "string", s |-> str, n |-> 0]

JNumber(tenths) == [t |-> "number", s |-> "", n |-> tenths]

\* A request body: kind "invalid" is bytes that do not parse (the empty body
\* included); "object", "array" and "number" are well-formed JSON values.
\* An array or a scalar has no named member.
JObject(name, value) == [kind |-> "object", name |-> name, value |-> value]

JOther(kind) == [kind |-> kind, name |-> Absent, value |-> Absent]

JNULL == JOther("NULL")

\* cJSON_ParseWithLength(hm->body.p, hm->body.len): NULL on bytes that do
\* not parse and on allocation failure.
cJSON_ParseWithLength(body, oom) ==
    IF body.kind = "invalid" \/ "parse" \in oom THEN JNULL ELSE body

\* cJSON_GetObjectItemCaseSensitive(json, key): the member named key, or
\* NULL (Absent); the children of an array carry no name and a scalar has no
\* child, so both yield NULL.
cJSON_GetObjectItemCaseSensitive(json, key) ==
    IF json.kind # "object" THEN Absent
    ELSE IF key = "name" THEN json.name ELSE json.value

cJSON_IsString(f) == f.t = "string"

cJSON_IsNumber(f) == f.t = "number"

\* (int)cJSON_GetNumberValue(f): the double, truncated toward zero.
IntOfNumber(f) ==
    IF f.n >= 0 THEN f.n \div 10 ELSE -((-f.n) \div 10)

----------------------------------------------------------------------------
(* The response formatter (utils.c).  A formatter call yields the sequence  *)
(* of mg_http_reply calls it makes.                                         *)

JsonBody(kind, text, code, its) ==
    [kind |-> kind, text |-> text, code |-> code, its |-> its]

mg_http_reply(status, ctype, body) ==
    [status |-> status, ctype |-> ctype, body |-> body]

send_json_response(status_code, json_data) ==
    << mg_http_reply(status_code, "application/json", json_data) >>

PlainFallback ==
    << mg_http_reply(500, "text/plain", JsonBody("plain", "Internal Server Error", 500, <<>>)) >>

\* send_error_response with the return after the first fallback lost: it
\* goes on to send the envelope as well.
send_error_response_NoReturn(status_code, status_text, oom) ==
    IF "err_obj" \in oom
    THEN PlainFallback \o send_json_response(status_code,
                             JsonBody("error", status_text, status_code, <<>>))
    ELSE IF "err_print" \in oom THEN PlainFallback
    ELSE send_json_response(status_code,
                            JsonBody("error", status_text, status_code, <<>>))

send_error_response(status_code, status_text, oom) ==
    IF "err_obj" \in oom THEN PlainFallback
    ELSE IF "err_print" \in oom THEN PlainFallback
    ELSE send_json_response(status_code,
                            JsonBody("error", status_text, status_code, <<>>))

ItemJson(it) == JsonBody("item", "", 0, <<it>>)

----------------------------------------------------------------------------
(* The item store (handlers.c).  st is the store as a handler sees it:      *)
(* items, next_item_id and log, the ids handed out during the call.         *)

NewItem(id, name, value) == [id |-> id, name |-> name, value |-> value]

\* AppendItem with next_item_id++ lost: the counter stays where it was.
AppendItem_NoIncrement(st, name, value) ==
    [items        |-> Append(st.items, NewItem(st.next_item_id, name, value)),
     next_item_id |-> st.next_item_id,
     log          |-> Append(st.log, st.next_item_id)]

\* items[item_count].id = next_item_id++; strcpy(name); value; item_count++
AppendItem(st, name, value) ==
    [items        |-> Append(st.items, NewItem(st.next_item_id, name, value)),
     next_item_id |-> st.next_item_id + 1,
     log          |-> Append(st.log, st.next_item_id)]

\* init_dummy_data with the item_count == 0 test lost: it seeds on every call.
init_dummy_data_Unguarded(st) ==
    LET s1 == IF Len(st.items) < MAX_ITEMS
              THEN AppendItem(st, "First Item", 100) ELSE st
        s2 == IF Len(s1.items) < MAX_ITEMS
              THEN AppendItem(s1, "Second Item", 200) ELSE s1
    IN  s2

init_dummy_data(st) ==
    IF Len(st.items) = 0
    THEN LET s1 == IF Len(st.items) < MAX_ITEMS
                   THEN AppendItem(st, "First Item", 100) ELSE st
             s2 == IF Len(s1.items) < MAX_ITEMS
                   THEN AppendItem(s1, "Second Item", 200) ELSE s1
         IN  s2
    ELSE st

\* find_item_by_id: the position (1-based) of the first item with this id,
\* 0 for NULL.
RECURSIVE FindFrom(_, _, _)
FindFrom(its, i, id) ==
    IF i > Len(its) THEN 0
    ELSE IF its[i].id = id THEN i
    ELSE FindFrom(its, i + 1, id)

find_item_by_id(its, id) == FindFrom(its, 1, id)

\* for (i = found_index; i < item_count - 1; ++i) items[i] = items[i + 1];
\* item_count--;
ShiftDelete(its, found) ==
    [i \in 1 .. (Len(its) - 1) |-> IF i < found THEN its[i] ELSE its[i + 1]]

\* StoreIsFull with > for >=: one item too many is let in.
StoreIsFull_OffByOne(st) == Len(st.items) > MAX_ITEMS

\* if (item_count >= MAX_ITEMS), the capacity check of handle_create_item
StoreIsFull(st) == Len(st.items) >= MAX_ITEMS

Outcome(st, replies) == [st |-> st, replies |-> replies]

----------------------------------------------------------------------------
(* The handlers (handlers.c).  Each yields the store it leaves and the       *)
(* replies it sends.  oom is the set of allocation sites that fail when      *)
(* reached: "obj" (the handler's cJSON_CreateObject), "array", "item1" (the  *)
(* object of the first listed item), "print" (cJSON_PrintUnformatted),       *)
(* "parse", and "err_obj" / "err_print" inside send_error_response.          *)

handle_root(st, oom) ==
    Outcome(st, send_json_response(200, JsonBody("message", "Welcome", 0, <<>>)))

\* ListedItems with the loop started at the second item.
ListedItems_FromSecond(its, oom) ==
    IF Len(its) > 0 THEN Tail(its) ELSE its

\* The items the loop adds to the array: all of them, in store order, less
\* any whose cJSON_CreateObject failed.
ListedItems(its, oom) ==
    IF "item1" \in oom /\ Len(its) > 0 THEN Tail(its) ELSE its

handle_get_all_items(st0, oom) ==
    LET st == init_dummy_data(st0)
    IN  IF "obj" \in oom
        THEN Outcome(st, send_error_response(500, "Internal Server Error", oom))
        ELSE IF "array" \in oom
        THEN Outcome(st, send_error_response(500, "Internal Server Error", oom))
        ELSE IF "print" \in oom
        THEN Outcome(st, send_error_response(500, "Internal Server Error", oom))
        ELSE Outcome(st, send_json_response(200,
                 JsonBody("items", "", 0, ListedItems(st.items, oom))))

\* The tail shared by get, create and update: build the item's JSON object,
\* print it and send it with status ok.
SendItem(ok, it, oom) ==
    IF "obj" \in oom
    THEN send_error_response(500, "Internal Server Error", oom)
    ELSE IF "print" \in oom
    THEN send_error_response(500, "Internal Server Error", oom)
    ELSE send_json_response(ok, ItemJson(it))

handle_get_item_by_id(st0, uri, oom) ==
    LET st      == init_dummy_data(st0)
        item_id == get_item_id_from_uri(uri)
        item    == find_item_by_id(st.items, item_id)
    IN  IF item_id = -1
        THEN Outcome(st, send_error_response(400, "Bad Request", oom))
        ELSE IF item = 0
        THEN Outcome(st, send_error_response(404, "Not Found", oom))
        ELSE Outcome(st, SendItem(200, st.items[item], oom))

\* handle_create_item with the length check of the name lost.
handle_create_item_AnyLength(st0, body, oom) ==
    LET st        == init_dummy_data(st0)
        json_body == cJSON_ParseWithLength(body, oom)
        name_obj  == cJSON_GetObjectItemCaseSensitive(json_body, "name")
        value_obj == cJSON_GetObjectItemCaseSensitive(json_body, "value")
        st2       == AppendItem(st, name_obj.s, IntOfNumber(value_obj))
    IN  IF StoreIsFull(st)
        THEN Outcome(st, send_error_response(507, "Insufficient Storage", oom))
        ELSE IF json_body = JNULL
        THEN Outcome(st, send_error_response(400, "Bad Request", oom))
        ELSE IF ~cJSON_IsString(name_obj) \/ ~cJSON_IsNumber(value_obj)
        THEN Outcome(st, send_error_response(400, "Bad Request", oom))
        ELSE Outcome(st2, SendItem(201, st2.items[Len(st2.items)], oom))

\* handle_create_item with the type check of name and value lost.
handle_create_item_Unvalidated(st0, body, oom) ==
    LET st        == init_dummy_data(st0)
        json_body == cJSON_ParseWithLength(body, oom)
        name_obj  == cJSON_GetObjectItemCaseSensitive(json_body, "name")
        value_obj == cJSON_GetObjectItemCaseSensitive(json_body, "value")
        st2       == AppendItem(st, name_obj.s, IntOfNumber(value_obj))
    IN  IF StoreIsFull(st)
        THEN Outcome(st, send_error_response(507, "Insufficient Storage", oom))
        ELSE IF json_body = JNULL
        THEN Outcome(st, send_error_response(400, "Bad Request", oom))
        ELSE IF Len(name_obj.s) >= NAME_SIZE
        THEN Outcome(st, send_error_response(400, "Bad Request", oom))
        ELSE Outcome(st2, SendItem(201, st2.items[Len(st2.items)], oom))

handle_create_item(st0, body, oom) ==
    LET st        == init_dummy_data(st0)
        json_body == cJSON_ParseWithLength(body, oom)
        name_obj  == cJSON_GetObjectItemCaseSensitive(json_body, "name")
        value_obj == cJSON_GetObjectItemCaseSensitive(json_body, "value")
        st2       == AppendItem(st, name_obj.s, IntOfNumber(value_obj))
    IN  IF StoreIsFull(st)
        THEN Outcome(st, send_error_response(507, "Insufficient Storage", oom))
        ELSE IF json_body = JNULL
        THEN Outcome(st, send_error_response(400, "Bad Request", oom))
        ELSE IF ~cJSON_IsString(name_obj) \/ ~cJSON_IsNumber(value_obj)
        THEN Outcome(st, send_error_response(400, "Bad Request", oom))
        ELSE IF Len(name_obj.s) >= NAME_SIZE
        THEN Outcome(st, send_error_response(400, "Bad Request", oom))
        ELSE Outcome(st2, SendItem(201, st2.items[Len(st2.items)], oom))

handle_update_item(st0, uri, body, oom) ==
    LET st        == init_dummy_data(st0)
        item_id   == get_item_id_from_uri(uri)
        item      == find_item_by_id(st.items, item_id)
        json_body == cJSON_ParseWithLength(body, oom)
        name_obj  == cJSON_GetObjectItemCaseSensitive(json_body, "name")
        value_obj == cJSON_GetObjectItemCaseSensitive(json_body, "value")
        old       == st.items[item]
        named     == IF cJSON_IsString(name_obj)
                     THEN [old EXCEPT !.name = name_obj.s] ELSE old
        valued    == IF cJSON_IsNumber(value_obj)
                     THEN [named EXCEPT !.value = IntOfNumber(value_obj)] ELSE named
        st2       == [st EXCEPT !.items[item] = valued]
    IN  IF item_id = -1
        THEN Outcome(st, send_error_response(400, "Bad Request", oom))
        ELSE IF item = 0
        THEN Outcome(st, send_error_response(404, "Not Found", oom))
        ELSE IF json_body = JNULL
        THEN Outcome(st, send_error_response(400, "Bad Request", oom))
        ELSE IF cJSON_IsString(name_obj) /\ Len(name_obj.s) >= NAME_SIZE
        THEN Outcome(st, send_error_response(400, "Bad Request", oom))
        ELSE Outcome(st2, SendItem(200, valued, oom))

handle_delete_item(st0, uri, oom) ==
    LET st          == init_dummy_data(st0)
        item_id     == get_item_id_from_uri(uri)
        found_index == find_item_by_id(st.items, item_id)
    IN  IF item_id = -1
        THEN Outcome(st, send_error_response(400, "Bad Request", oom))
        ELSE IF found_index = 0
        THEN Outcome(st, send_error_response(404, "Not Found", oom))
        ELSE Outcome([st EXCEPT !.items = ShiftDelete(st.items, found_index)],
                     send_json_response(200, JsonBody("message", "Item deleted successfully.", 0, <<>>)))

----------------------------------------------------------------------------
(* The route table and the dispatcher (router.c) *)

Route(method, uri_prefix, exact_match, handler) ==
    [method |-> method, uri_prefix |-> uri_prefix,
     exact_match |-> exact_match, handler |-> handler]

\* The route table with the identifier-prefix routes moved in front of the
\* collection routes.
routes_PrefixFirst ==
    << Route("GET",    "/api/v1/items/", 0, "handle_get_item_by_id"),
       Route("PUT",    "/api/v1/items/", 0, "handle_update_item"),
       Route("DELETE", "/api/v1/items/", 0, "handle_delete_item"),
       Route("GET",    "/api/v1/items",  1, "handle_get_all_items"),
       Route("POST",   "/api/v1/items",  1, "handle_create_item"),
       Route("GET",    "/",              1, "handle_root") >>

routes ==
    << Route("GET",    "/api/v1/items",  1, "handle_get_all_items"),
       Route("POST",   "/api/v1/items",  1, "handle_create_item"),
       Route("GET",    "/api/v1/items/", 0, "handle_get_item_by_id"),
       Route("PUT",    "/api/v1/items/", 0, "handle_update_item"),
       Route("DELETE", "/api/v1/items/", 0, "handle_delete_item"),
       Route("GET",    "/",              1, "handle_root") >>

num_routes == Len(routes)

\* RouteMatches with the method comparison lost: any method reaches a route
\* whose pattern matches.
RouteMatches_AnyMethod(route, method, uri) ==
    IF route.exact_match = 1
    THEN mg_vcmp(uri, route.uri_prefix) = 0
    ELSE /\ Len(uri) >= Len(route.uri_prefix)
         /\ mg_vcmp(uri, route.uri_prefix) = 0

\* The body of the loop for one route: does router_dispatch call its handler?
RouteMatches(route, method, uri) ==
    /\ strcmp(method, route.method) = 0
    /\ IF route.exact_match = 1
       THEN mg_vcmp(uri, route.uri_prefix) = 0
       ELSE /\ Len(uri) >= Len(route.uri_prefix)
            /\ mg_vcmp(uri, route.uri_prefix) = 0

\* The loop of router_dispatch from route i on: the handler it calls, or
\* "none" when it falls through to the 404.
RECURSIVE DispatchFrom(_, _, _)
DispatchFrom(i, method, uri) ==
    IF i > num_routes THEN "none"
    ELSE IF RouteMatches(routes[i], method, uri) THEN routes[i].handler
    ELSE DispatchFrom(i + 1, method, uri)

router_dispatch(method, uri) == DispatchFrom(1, method, uri)

----------------------------------------------------------------------------
(* The domain-name validator (libtld.c).  The argument is a C string or     *)
(* NULL: str holds the bytes before the terminating NUL.                    *)

CString(str) == [isNull |-> FALSE, str |-> str]

NullDomain == [isNull |-> TRUE, str |-> ""]

MaxTotalLength == 253

MaxLabelLength == 63

MinTldLength == 2

LowerChars ==
    {"a", "b", "c", "d", "e", "f", "g", "h", "i", "j", "k", "l", "m",
     "n", "o", "p", "q", "r", "s", "t", "u", "v", "w", "x", "y", "z"}

UpperChars ==
    {"A", "B", "C", "D", "E", "F", "G", "H", "I", "J", "K", "L", "M",
     "N", "O", "P", "Q", "R", "S", "T", "U", "V", "W", "X", "Y", "Z"}

\* (c >= 'a' && c <= 'z') || (c >= 'A' && c <= 'Z')
IsLetter(c) == c \in LowerChars \/ c \in UpperChars

\* valid_char: a letter, a digit or the hyphen
ValidChar(c) == IsLetter(c) \/ c \in DigitChars \/ c = "-"

\* DomainTail with the two checks of the last label (the TLD) lost.
DomainTail_NoTldCheck(s, p, current_label_length, last_label_start) ==
    IF current_label_length = 0 THEN 0
    ELSE IF Ch(s, p - 1) = "-" THEN 0
    ELSE 1

\* The checks after the loop, with p one past the last byte.
DomainTail(s, p, current_label_length, last_label_start) ==
    IF current_label_length = 0 THEN 0
    ELSE IF Ch(s, p - 1) = "-" THEN 0
    ELSE IF current_label_length < MinTldLength THEN 0
    ELSE IF \E ptr \in last_label_start .. (p - 1) : ~IsLetter(Ch(s, ptr)) THEN 0
    ELSE 1

\* The locals of is_valid_domain between two iterations of its loop; ret is
\* 0 once the loop has returned 0, and -1 while it runs.
DomainLocals(ret, total_length, current_label_length, last_label_start) ==
    [ret |-> ret, total_length |-> total_length,
     current_label_length |-> current_label_length,
     last_label_start |-> last_label_start]

DomainReturn0(st) == [st EXCEPT !.ret = 0]

\* One iteration of while (*p != '\0') { ... p++; }, on the byte at p.
DomainStep(s, p, st) ==
    IF st.ret # -1 THEN st
    ELSE IF st.total_length + 1 > MaxTotalLength THEN DomainReturn0(st)
    ELSE IF Ch(s, p) = "."
    THEN IF st.current_label_length = 0 THEN DomainReturn0(st)
         ELSE IF Ch(s, p - 1) = "-" THEN DomainReturn0(st)
         ELSE DomainLocals(-1, st.total_length + 1, 0, p + 1)
    ELSE IF st.current_label_length = 0 /\ Ch(s, p) = "-" THEN DomainReturn0(st)
    ELSE IF ~ValidChar(Ch(s, p)) THEN DomainReturn0(st)
    ELSE IF st.current_label_length + 1 > MaxLabelLength THEN DomainReturn0(st)
    ELSE DomainLocals(-1, st.total_length + 1, st.current_label_length + 1,
                      st.last_label_start)

\* The iterations of the loop for p = lo, lo + 1, ..., hi, in this order,
\* from the locals st.  (The range is halved to keep the evaluation shallow;
\* the bytes are still visited left to right.)
RECURSIVE DomainLoop(_, _, _, _)
DomainLoop(s, lo, hi, st) ==
    IF lo > hi THEN st
    ELSE IF lo = hi THEN DomainStep(s, lo, st)
    ELSE LET mid  == (lo + hi) \div 2
             left == DomainLoop(s, lo, mid, st)
         IN  IF left.ret # -1 THEN left
             ELSE DomainLoop(s, mid + 1, hi, left)

is_valid_domain(d) ==
    IF d.isNull \/ Len(d.str) = 0 THEN 0
    ELSE IF Ch(d.str, 1) = "." THEN 0
    ELSE LET st == DomainLoop(d.str, 1, Len(d.str), DomainLocals(-1, 0, 0, 1))
         IN  IF st.ret # -1 THEN st.ret
             ELSE DomainTail(d.str, Len(d.str) + 1, st.current_label_length,
                             st.last_label_start)

----------------------------------------------------------------------------
(* Requests.  A request is what the transport delivers (method, uri, body)  *)
(* together with oom, the allocation sites that fail while it is served.    *)
(* method is the C string that strcmp reads at hm->method.p; uri and body   *)
(* are the bytes of the mg_str hm->uri and hm->body.                        *)

Request(method, uri, body, oom) ==
    [method |-> method, uri |-> uri, body |-> body, oom |-> oom]

Requests(methods, uris, bodies, ooms) ==
    {Request(m, u, b, o) : m \in methods, u \in uris, b \in bodies, o \in ooms}

\* The empty body of a GET or a DELETE: it does not parse.
NoBody == JOther("invalid")

\* 64 bytes: one more than an item's name can hold.
LongName == "0123456789012345678901234567890123456789012345678901234567890123"

Uris ==
    {"/", "/api/v1/items", "/api/v1/items/", "/api/v1/items/1",
     "/api/v1/items/3", "/api/v1/items/42", "/api/v1/items/abc", "/unknown"}

IdUris == {"/api/v1/items/", "/api/v1/items/1", "/api/v1/items/3", "/api/v1/items/42"}

CreateBodies ==
    {JOther("invalid"),
     JOther("array"),
     JObject(JString("Widget"), JNumber(70)),
     JObject(JString("Gadget"), JNumber(-75)),
     JObject(JString("Gadget"), Absent),
     JObject(JNumber(1230), Absent),
     JObject(JString(LongName), JNumber(90)),
     JObject(JString(""), JNumber(0))}

UpdateBodies ==
    {JOther("invalid"),
     JOther("array"),
     JObject(JString("Widget"), JNumber(70)),
     JObject(JString("Gadget"), Absent),
     JObject(Absent, JNumber(90)),
     JObject(JNumber(1230), JNumber(90)),
     JObject(JString(LongName), JNumber(90))}

Ooms == {{}, {"obj"}, {"err_obj"}, {"print", "err_print"}}

\* Further allocation failures of the list handler and of the create handler.
ListOoms == {{"array"}, {"item1"}, {"print"}, {"obj", "err_print"}}

CreateOoms == {{"parse"}, {"print"}}

SpecRequests ==
    Requests({"POST"}, {"/api/v1/items"}, CreateBodies, Ooms)
      \cup Requests({"POST"}, {"/", "/api/v1/items/"}, {NoBody}, {{}})
      \cup Requests({"PUT"}, IdUris, UpdateBodies, {{}})
      \cup Requests({"PUT"}, {"/api/v1/items"}, {NoBody}, {{}, {"err_obj"}})
      \cup Requests({"GET"}, Uris, {NoBody}, Ooms)
      \cup Requests({"GET"}, {"/api/v1/items"}, {NoBody}, ListOoms)
      \cup Requests({"POST"}, {"/api/v1/items"},
                    {JObject(JString("Widget"), JNumber(70))}, CreateOoms)
      \cup Requests({"DELETE"}, Uris \cup {"/api/v1/items/2"}, {NoBody}, {{}})

\* The requests served on the way to capacity: one body that creates, two
\* that are refused, and no allocation failure but the error formatter's.
CapRequests ==
    Requests({"POST"}, {"/api/v1/items"},
             {JObject(JString("Widget"), JNumber(70)), JObject(JNumber(1230), Absent),
              JObject(JString("Gadget"), Absent)},
             {{}, {"err_obj"}})
      \cup Requests({"GET", "PUT", "DELETE"},
                    {"/", "/api/v1/items", "/api/v1/items/", "/api/v1/items/1"},
                    {NoBody}, {{}})

----------------------------------------------------------------------------
(* The state machine *)

NoRequest ==
    [method |-> "", uri |-> "", body |-> NoBody, oom |-> {},
     handler |-> "", item_id |-> 0, replies |-> <<>>]

Init ==
    /\ items = <<>>
    /\ next_item_id = 1
    /\ last = NoRequest
    /\ assigned = <<>>
    /\ created = <<>>
    /\ deleted = {}
    /\ domain = NullDomain
    /\ result = -1

Store == [items |-> items, next_item_id |-> next_item_id, log |-> <<>>]

\* The ids carried by the 201 replies among rs.
CreatedIds(rs) ==
    LET r201 == SelectSeq(rs, LAMBDA r : r.status = 201)
    IN  [i \in 1 .. Len(r201) |-> r201[i].body.its[1].id]

\* The handlers that compute a local item_id from the URI.
IdHandlers == {"handle_get_item_by_id", "handle_update_item", "handle_delete_item"}

\* The handler ran to completion: the store it left is the store, and the
\* histories record what it did.
Commit(req, handler, out) ==
    /\ items' = out.st.items
    /\ next_item_id' = out.st.next_item_id
    /\ last' = [method |-> req.method, uri |-> req.uri, body |-> req.body,
                oom |-> req.oom, handler |-> handler,
                item_id |-> IF handler \in IdHandlers
                            THEN get_item_id_from_uri(req.uri) ELSE 0,
                replies |-> out.replies]
    /\ assigned' = assigned \o out.st.log
    /\ created' = created \o CreatedIds(out.replies)
    /\ deleted' = IF /\ handler = "handle_delete_item"
                     /\ \E i \in 1 .. Len(out.replies) : out.replies[i].status = 200
                  THEN deleted \cup {get_item_id_from_uri(req.uri)}
                  ELSE deleted
    /\ UNCHANGED <<domain, result>>

HandleRoot(req) ==
    /\ router_dispatch(req.method, req.uri) = "handle_root"
    /\ Commit(req, "handle_root", handle_root(Store, req.oom))

HandleGetAllItems(req) ==
    /\ router_dispatch(req.method, req.uri) = "handle_get_all_items"
    /\ Commit(req, "handle_get_all_items", handle_get_all_items(Store, req.oom))

HandleGetItemById(req) ==
    /\ router_dispatch(req.method, req.uri) = "handle_get_item_by_id"
    /\ Commit(req, "handle_get_item_by_id",
              handle_get_item_by_id(Store, req.uri, req.oom))

HandleCreateItem(req) ==
    /\ router_dispatch(req.method, req.uri) = "handle_create_item"
    /\ Commit(req, "handle_create_item",
              handle_create_item(Store, req.body, req.oom))

HandleUpdateItem(req) ==
    /\ router_dispatch(req.method, req.uri) = "handle_update_item"
    /\ Commit(req, "handle_update_item",
              handle_update_item(Store, req.uri, req.body, req.oom))

HandleDeleteItem(req) ==
    /\ router_dispatch(req.method, req.uri) = "handle_delete_item"
    /\ Commit(req, "handle_delete_item",
              handle_delete_item(Store, req.uri, req.oom))

\* No route matched: router_dispatch sends the 404 itself.
NoRoute(req) ==
    /\ router_dispatch(req.method, req.uri) = "none"
    /\ Commit(req, "none",
              Outcome(Store, send_error_response(404, "Not Found", req.oom)))

\* The bound of Spec: no request is served that leaves next_item_id beyond
\* MaxNextId.
WithinBound == next_item_id' <= MaxNextId

Next ==
    \/ \E req \in SpecRequests : HandleRoot(req) /\ WithinBound
    \/ \E req \in SpecRequests : HandleGetAllItems(req) /\ WithinBound
    \/ \E req \in SpecRequests : HandleGetItemById(req) /\ WithinBound
    \/ \E req \in SpecRequests : HandleCreateItem(req) /\ WithinBound
    \/ \E req \in SpecRequests : HandleUpdateItem(req) /\ WithinBound
    \/ \E req \in SpecRequests : HandleDeleteItem(req) /\ WithinBound
    \/ \E req \in SpecRequests : NoRoute(req) /\ WithinBound

Spec == Init /\ [][Next]_vars

\* The same server, served CapRequests only, which lets the store fill up
\* to MAX_ITEMS.
NextCap ==
    \/ \E req \in CapRequests : HandleRoot(req)
    \/ \E req \in CapRequests : HandleGetAllItems(req)
    \/ \E req \in CapRequests : HandleGetItemById(req)
    \/ \E req \in CapRequests : HandleCreateItem(req)
    \/ \E req \in CapRequests : HandleUpdateItem(req)
    \/ \E req \in CapRequests : HandleDeleteItem(req)
    \/ \E req \in CapRequests : NoRoute(req)

SpecCap == Init /\ [][NextCap]_vars

----------------------------------------------------------------------------
(* The extractor on its own: a URI is drawn, get_item_id_from_uri is         *)
(* applied to it once, and last.item_id holds what it returned.              *)

RemChars == {"0", "2", "4", "9", "a", "-", "+", " "}

RECURSIVE StringsUpTo(_)
StringsUpTo(n) ==
    IF n = 0 THEN {""}
    ELSE LET S == StringsUpTo(n - 1)
         IN  S \cup {s \o c : s \in S, c \in RemChars}

ExtractorUris ==
    {ITEMS_PREFIX \o r : r \in StringsUpTo(MaxRemLen)}
      \cup {ITEMS_PREFIX \o r :
              r \in {"abc", "notanumber", "99999999999999999999", "2147483647",
                     "2147483648", "-2147483648", "-2147483649", "42x",
                     "0000000000000000000000000000042",
                     "00000000000000000000000000000042"}}
      \cup {"/", "/api/v1/items", "/api/v1/item/42", "/api/v2/items/42"}

InitUri ==
    /\ items = <<>>
    /\ next_item_id = 1
    /\ last \in {[NoRequest EXCEPT !.uri = u] : u \in ExtractorUris}
    /\ assigned = <<>>
    /\ created = <<>>
    /\ deleted = {}
    /\ domain = NullDomain
    /\ result = -1

ExtractId ==
    /\ last.handler = ""
    /\ last' = [last EXCEPT !.handler = "get_item_id_from_uri",
                            !.item_id = get_item_id_from_uri(last.uri)]
    /\ UNCHANGED <<items, next_item_id, assigned, created, deleted, domain, result>>

NextUri == ExtractId

SpecUri == InitUri /\ [][NextUri]_vars

----------------------------------------------------------------------------
(* The validator on its own: an argument is drawn, is_valid_domain is        *)
(* applied to it once, and result holds what it returned.                    *)

DomainChars == {"a", "Z", "7", "-", ".", "_"}

RECURSIVE DomainStringsUpTo(_)
DomainStringsUpTo(n) ==
    IF n = 0 THEN {""}
    ELSE LET S == DomainStringsUpTo(n - 1)
         IN  S \cup {s \o c : s \in S, c \in DomainChars}

\* n copies of the byte c.
RECURSIVE Rep(_, _)
Rep(c, n) == IF n = 0 THEN "" ELSE Rep(c, n - 1) \o c

\* Names at and just beyond the limits: labels of 63 and 64 bytes, totals of
\* 253 and 254 bytes.
LongDomains ==
    LET l63 == Rep("a", 63)
    IN  {l63, l63 \o "a", l63 \o ".com", l63 \o "a.com", "www." \o l63,
         "www." \o l63 \o "a",
         l63 \o "." \o l63 \o "." \o l63 \o "." \o Rep("a", 61),
         l63 \o "." \o l63 \o "." \o l63 \o "." \o Rep("a", 62),
         l63 \o "." \o l63 \o "." \o l63 \o "." \o Rep("a", 61) \o ".",
         l63 \o "." \o l63 \o "." \o l63 \o "." \o Rep("a", 60) \o "."}

SampleDomains ==
    {"example.com", "example.com.", "example.com..", "sub.example.co.uk",
     "a-b.example.org", "-ab.com", "ab-.com", "ab.-com", "ab.com-",
     "a..com", ".com", "example.c", "example.c0m", "example.123",
     "exa_mple.com", "exa mple.com", "EXAMPLE.COM", "xn--p1ai.com",
     "localhost", "localhost."}

DomainInputs ==
    {NullDomain}
      \cup {CString(s) : s \in DomainStringsUpTo(MaxDomainLen)
                               \cup LongDomains \cup SampleDomains}

InitDomain ==
    /\ items = <<>>
    /\ next_item_id = 1
    /\ last = NoRequest
    /\ assigned = <<>>
    /\ created = <<>>
    /\ deleted = {}
    /\ domain \in DomainInputs
    /\ result = -1

ValidateDomain ==
    /\ result = -1
    /\ result' = is_valid_domain(domain)
    /\ UNCHANGED <<items, next_item_id, last, assigned, created, deleted, domain>>

NextDomain == ValidateDomain

SpecDomain == InitDomain /\ [][NextDomain]_vars

----------------------------------------------------------------------------
(* What a reply says *)

\* Exactly one reply was sent for the last request, with this status.
Answered(l, status) == Len(l.replies) = 1 /\ l.replies[1].status = status

\* The error formatter's own allocations succeeded while l was served.
FormatterOk(l) == l.oom \cap {"err_obj", "err_print"} = {}

\* The handler answered l with this error status: the error envelope with
\* that status, or the formatter's plain-text 500 when its allocation failed.
AnsweredError(l, status) ==
    IF FormatterOk(l) THEN Answered(l, status) /\ l.replies[1].body.kind = "error"
    ELSE l.replies = PlainFallback

IsCreateRequest(l) == l.method = "POST" /\ l.uri = "/api/v1/items"

Ids(its) == {its[i].id : i \in 1 .. Len(its)}

\* n > 0 in decimal, and the path of the item with that id.
RECURSIVE Decimal(_)
Decimal(n) ==
    IF n < 10 THEN Ch("0123456789", n + 1)
    ELSE Decimal(n \div 10) \o Ch("0123456789", (n % 10) + 1)

ItemUri(id) == ITEMS_PREFIX \o Decimal(id)

StartsWith(s, prefix) ==
    Len(s) >= Len(prefix) /\ SubSeq(s, 1, Len(prefix)) = prefix

\* A request on the path of an item: METHOD /api/v1/items/{id}, whatever
\* stands for {id}.
IsItemRequest(l, method) == l.method = method /\ StartsWith(l.uri, ITEMS_PREFIX)

\* The sequence s without its k-th entry.
RemoveAt(s, k) == SubSeq(s, 1, k - 1) \o SubSeq(s, k + 1, Len(s))

\* The two sample items as seeding creates them when the counter is n.
SeedItems(n) ==
    << NewItem(n, "First Item", 100), NewItem(n + 1, "Second Item", 200) >>

----------------------------------------------------------------------------
(* Claims *)

\* C1: the ids returned by the successful creates (the 201 replies), in the
\* order the creates were served, are strictly increasing, hence pairwise
\* distinct, all the way up to capacity.
C1_CreatedIdsIncreasing ==
    \A i, j \in 1 .. Len(created) : i < j => created[i] < created[j]

\* The store was filled to capacity by successful creates.
C1_Witness ==
    /\ Len(created) = MAX_ITEMS - 2
    /\ Len(items) = MAX_ITEMS

\* C2: next_item_id never decreases, it is strictly greater than every id
\* ever handed out (by a create or by seeding), and no id is handed out twice.
C2_CounterAboveAssigned ==
    /\ [](/\ \A i \in 1 .. Len(assigned) : assigned[i] < next_item_id
          /\ \A i, j \in 1 .. Len(assigned) : i # j => assigned[i] # assigned[j])
    /\ [][next_item_id' >= next_item_id]_vars

\* Seeding and two creates have handed out ids, and requests of the other
\* kinds have been served since.
C2_Witness ==
    /\ Len(assigned) >= 4
    /\ last.method = "DELETE"
    /\ last.uri = "/api/v1/items/3"

\* C3: a create request that finds the store holding MAX_ITEMS items is
\* answered 507 whatever its body (the plain-text 500 when the error
\* formatter itself cannot allocate), adds no item and leaves next_item_id
\* unchanged.
C3_FullStoreRefusesCreate ==
    [][ (Len(items) = MAX_ITEMS /\ IsCreateRequest(last'))
          => /\ AnsweredError(last', 507)
             /\ items' = items
             /\ next_item_id' = next_item_id ]_vars

\* A well-formed create was answered 507 by a full store.
C3_Witness ==
    /\ Len(items) = MAX_ITEMS
    /\ IsCreateRequest(last)
    /\ last.body = JObject(JString("Widget"), JNumber(70))
    /\ Answered(last, 507)

\* C4: between requests the store holds between 0 and MAX_ITEMS items.
C4_CountWithinCapacity == Len(items) \in 0 .. MAX_ITEMS

\* The store is full and a further create has been attempted.
C4_Witness ==
    /\ Len(items) = MAX_ITEMS
    /\ IsCreateRequest(last)
    /\ last.handler = "handle_create_item"
    /\ ~Answered(last, 201)

\* C5: the live items have pairwise distinct, positive ids, so at most one
\* item matches a lookup by id.
C5_LiveIdsDistinctPositive ==
    /\ \A i, j \in 1 .. Len(items) : i # j => items[i].id # items[j].id
    /\ \A i \in 1 .. Len(items) : items[i].id > 0
    /\ \A id \in Ids(items) : Cardinality({i \in 1 .. Len(items) : items[i].id = id}) <= 1

\* Seeded and created items live side by side.
C5_Witness == Len(items) >= 4 /\ Len(created) >= 2


PathIds == (1 .. (MaxNextId + 1)) \cup {42}

TargetId(uri) ==
    IF \E id \in PathIds : uri = ItemUri(id)
    THEN CHOOSE id \in PathIds : uri = ItemUri(id)
    ELSE 0

\* The frame of one update: against the items and counter it started from,
\* no id changed, no item but the target changed, count and order are the
\* same, the counter is the same; and a target that is not live is answered
\* 404 with nothing changed.
UpdateFrame(l, before, before_next, after, after_next) ==
    /\ Len(after) = Len(before)
    /\ after_next = before_next
    /\ \A k \in 1 .. Len(before) :
          /\ after[k].id = before[k].id
          /\ before[k].id # TargetId(l.uri) => after[k] = before[k]
    /\ (TargetId(l.uri) # 0 /\ TargetId(l.uri) \notin Ids(before))
          => (AnsweredError(l, 404) /\ after = before)

\* C9 as claimed: an update changes no id, no other item, not the count, the
\* order or next_item_id, and an update of an id no live item has is answered
\* 404 and changes nothing.
C9_UpdateFrame ==
    [][ IsItemRequest(last', "PUT")
          => UpdateFrame(last', items, next_item_id, items', next_item_id') ]_vars

\* C9 as amended: the same, measured from the store as lazy seeding leaves it
\* when the update handler runs on an empty store (the two sample items, the
\* counter advanced by 2).
C9_UpdateFrameAfterSeeding ==
    [][ IsItemRequest(last', "PUT")
          => LET seeds == items = <<>> /\ last'.handler = "handle_update_item"
             IN  UpdateFrame(last',
                             IF seeds THEN SeedItems(next_item_id) ELSE items,
                             IF seeds THEN next_item_id + 2 ELSE next_item_id,
                             items', next_item_id') ]_vars

\* An update of an id that no live item has was answered 404 on a store that
\* holds items.
C9_Witness ==
    /\ last.method = "PUT"
    /\ last.uri = ItemUri(42)
    /\ Len(items) >= 3
    /\ 42 \notin Ids(items)
    /\ Answered(last, 404)

\* C10: the extractor returns 42 for /api/v1/items/42 and invalid (-1) for
\* /api/v1/items/abc, /api/v1/items/ and /api/v1/items/99999999999999999999.
C10_ExtractorExamples ==
    last.handler = "get_item_id_from_uri"
      => /\ last.uri = "/api/v1/items/42" => last.item_id = 42
         /\ last.uri = "/api/v1/items/abc" => last.item_id = -1
         /\ last.uri = "/api/v1/items/" => last.item_id = -1
         /\ last.uri = "/api/v1/items/99999999999999999999" => last.item_id = -1

\* The extractor was applied to /api/v1/items/42 and returned invalid.
C10_Witness ==
    /\ last.handler = "get_item_id_from_uri"
    /\ last.uri = "/api/v1/items/42"
    /\ last.item_id = -1

----------------------------------------------------------------------------
(* The identifier and the route a request names, read off the path alone *)

\* The remainder of a path after /api/v1/items/.
Remainder(uri) == SubSeq(uri, Len(ITEMS_PREFIX) + 1, Len(uri))

AllDigits(r) == \A i \in 1 .. Len(r) : Ch(r, i) \in DigitChars

\* The base-10 value of the digits of r from position i on, after acc;
\* -1 once it no longer fits the identifier's range [0, INT_MAX].
RECURSIVE DigitsValue(_, _, _)
DigitsValue(r, i, acc) ==
    IF i > Len(r) THEN acc
    ELSE LET d == DigitVal(Ch(r, i))
         IN  IF acc > (INT_MAX - d) \div 10 THEN -1
             ELSE DigitsValue(r, i + 1, acc * 10 + d)

\* The identifier a path names: the value of its remainder when the path
\* begins with /api/v1/items/ and the remainder is a non-empty run of digits
\* whose value fits; invalid (-1) otherwise.
NamedId(uri) ==
    IF /\ StartsWith(uri, ITEMS_PREFIX)
       /\ Len(Remainder(uri)) > 0
       /\ AllDigits(Remainder(uri))
    THEN DigitsValue(Remainder(uri), 1, 0)
    ELSE -1

\* C11: the extractor returns invalid (-1) when the path does not begin with
\* /api/v1/items/, when the remainder is empty, holds a byte that is not a
\* digit (a sign or white space included) or has a value outside the
\* identifier's range, and the base-10 value of the remainder in every other
\* case.
C11_ExtractorContract ==
    last.handler = "get_item_id_from_uri" => last.item_id = NamedId(last.uri)

\* The extractor was applied to a path whose remainder is the single digit 9
\* and returned invalid.
C11_Witness ==
    /\ last.handler = "get_item_id_from_uri"
    /\ last.uri = "/api/v1/items/9"
    /\ NamedId(last.uri) = 9
    /\ last.item_id = -1

\* A route matches a request as the route table documents it: the methods
\* are equal, and the path equals the pattern of an exact route or starts
\* with the pattern of a prefix route.
MatchesPerMode(route, method, uri) ==
    /\ method = route.method
    /\ IF route.exact_match = 1 THEN uri = route.uri_prefix
                                ELSE StartsWith(uri, route.uri_prefix)

\* The handler of the first route, in table order, that matches per its
\* mode; "none" when no route does.
FirstMatch(method, uri) ==
    LET hits == {i \in 1 .. num_routes : MatchesPerMode(routes[i], method, uri)}
    IN  IF hits = {} THEN "none"
        ELSE routes[CHOOSE i \in hits : \A j \in hits : i <= j].handler

\* C12: router_dispatch invokes exactly the first route, in table order,
\* whose method equals the request's and whose pattern matches per its mode
\* (exact: the path equals the pattern; prefix: the path starts with it, so
\* GET /api/v1/items/42 reaches the get-by-id handler), and no other handler.
C12_FirstMatchingRoute ==
    last.method # "" => last.handler = FirstMatch(last.method, last.uri)

\* GET /api/v1/items/42 was served and no handler was invoked.
C12_Witness ==
    /\ last.method = "GET"
    /\ last.uri = "/api/v1/items/42"
    /\ FirstMatch(last.method, last.uri) = "handle_get_item_by_id"
    /\ last.handler = "none"
    /\ Answered(last, 404)

\* The exact route of a collection and the identifier-prefix routes of the
\* same collection: the prefix pattern is the collection path plus "/".
SameCollection(exact, prefix) ==
    /\ exact.exact_match = 1
    /\ prefix.exact_match = 0
    /\ prefix.uri_prefix = exact.uri_prefix \o "/"

\* C13: GET /api/v1/items is dispatched to the list handler, never to the
\* get-by-id handler, and in the route table every exact collection route
\* stands before the identifier-prefix routes of the same collection.
C13_CollectionBeforeIdRoutes ==
    /\ (last.method = "GET" /\ last.uri = "/api/v1/items")
          => last.handler = "handle_get_all_items"
    /\ \A i, j \in 1 .. num_routes :
          SameCollection(routes[i], routes[j]) => i < j

\* GET /api/v1/items was served by the list handler, which listed the items.
C13_Witness ==
    /\ last.method = "GET"
    /\ last.uri = "/api/v1/items"
    /\ last.handler = "handle_get_all_items"
    /\ Answered(last, 200)
    /\ last.replies[1].body.kind = "items"
    /\ last.replies[1].body.its = items
    /\ \E i, j \in 1 .. num_routes : SameCollection(routes[i], routes[j])

\* C14: a request whose method and path match no route of the table (DELETE
\* /api/v1/items, POST /, GET /unknown, ...) is answered with the 404 error
\* envelope (the plain-text 500 when the error formatter itself cannot
\* allocate), invokes no handler, and leaves the items and next_item_id as
\* they were: it does not seed.
C14_UnmatchedIs404 ==
    [][ FirstMatch(last'.method, last'.uri) = "none"
          => /\ AnsweredError(last', 404)
             /\ last'.handler = "none"
             /\ items' = items
             /\ next_item_id' = next_item_id ]_vars

\* DELETE /api/v1/items was answered 404 on the empty store, which stayed
\* empty.
C14_Witness ==
    /\ last.method = "DELETE"
    /\ last.uri = "/api/v1/items"
    /\ last.handler = "none"
    /\ Answered(last, 404)
    /\ last.replies[1].body.kind = "error"
    /\ items = <<>>
    /\ next_item_id = 1

\* The items a handler works on: the store as lazy seeding leaves it.
SeenBy(its, next) == IF its = <<>> THEN SeedItems(next) ELSE its

ItemMethods == {"GET", "PUT", "DELETE"}

\* C15: a GET, PUT or DELETE on /api/v1/items/{id} whose {id} is not a valid
\* integer (/api/v1/items/abc) is answered 400, not 404, and one whose {id}
\* is a valid integer that no live item has is answered 404.
C15_BadIdIs400 ==
    [][ \A m \in ItemMethods :
          IsItemRequest(last', m)
            => LET id == NamedId(last'.uri)
               IN  /\ id = -1 => AnsweredError(last', 400)
                   /\ (id # -1 /\ id \notin Ids(SeenBy(items, next_item_id)))
                         => AnsweredError(last', 404) ]_vars

\* GET /api/v1/items/abc was answered 404 by the dispatcher.
C15_Witness ==
    /\ last.method = "GET"
    /\ last.uri = "/api/v1/items/abc"
    /\ FormatterOk(last)
    /\ last.handler = "none"
    /\ Answered(last, 404)

\* A create request with a valid name and value, served with no allocation
\* failure.
ValidCreate(l) ==
    /\ IsCreateRequest(l)
    /\ l.body.kind = "object"
    /\ l.body.name.t = "string"
    /\ Len(l.body.name.s) < NAME_SIZE
    /\ l.body.value.t = "number"
    /\ l.oom = {}

\* l was answered with one item's JSON and this status.
AnsweredItem(l, status) ==
    /\ Answered(l, status)
    /\ l.replies[1].body.kind = "item"

RepliedItem(l) == l.replies[1].body.its[1]

\* C16: a valid create is answered 201 with a positive id and the given name
\* and value; a GET of that id right after it is answered 200 with the same
\* id, name and value; a DELETE of that id right after that GET is answered
\* 200; and a GET of that id right after that DELETE is answered 404.
C16_CreateGetDeleteGet ==
    /\ [][ (ValidCreate(last') /\ Len(SeenBy(items, next_item_id)) < MAX_ITEMS)
             => /\ AnsweredItem(last', 201)
                /\ RepliedItem(last').id > 0
                /\ RepliedItem(last').name = last'.body.name.s
                /\ last'.body.value.n % 10 = 0
                      => RepliedItem(last').value * 10 = last'.body.value.n ]_vars
    /\ [][ (/\ AnsweredItem(last, 201)
            /\ last'.method = "GET"
            /\ last'.uri = ItemUri(RepliedItem(last).id)
            /\ last'.oom = {})
             => /\ AnsweredItem(last', 200)
                /\ RepliedItem(last') = RepliedItem(last) ]_vars
    /\ [][ (/\ last.method = "GET"
            /\ AnsweredItem(last, 200)
            /\ last'.method = "DELETE"
            /\ last'.uri = ItemUri(RepliedItem(last).id))
             => Answered(last', 200) ]_vars
    /\ [][ (/\ last.method = "DELETE"
            /\ Answered(last, 200)
            /\ last'.method = "GET"
            /\ last'.uri = last.uri)
             => AnsweredError(last', 404) ]_vars

\* The item created with id 3 is live, and a GET of /api/v1/items/3 was
\* answered 404 by the dispatcher.
C16_Witness ==
    /\ \E i \in 1 .. Len(created) : created[i] = 3
    /\ \E k \in 1 .. Len(items) : items[k].id = 3 /\ items[k].name = "Widget"
    /\ last.method = "GET"
    /\ last.uri = ItemUri(3)
    /\ last.oom = {}
    /\ last.handler = "none"
    /\ Answered(last, 404)

\* A create request whose body is an object with a name that is not a string
\* or with no numeric value.
BadCreate(l) ==
    /\ IsCreateRequest(l)
    /\ l.body.kind = "object"
    /\ (l.body.name.t # "string" \/ l.body.value.t # "number")

\* Such a request was answered with this status, created no item and moved
\* next_item_id by no more than lazy seeding does.
RefusedCreate(l, status, before, before_next, after, after_next) ==
    /\ AnsweredError(l, status)
    /\ after = SeenBy(before, before_next)
    /\ after_next = IF before = <<>> THEN before_next + 2 ELSE before_next

\* C17 as claimed: a create whose name is not a string or whose value is not
\* a number is answered 400 in every state of the store, creates no item and
\* does not advance next_item_id by a create.
C17_BadCreateIs400 ==
    [][ BadCreate(last')
          => /\ RefusedCreate(last', 400, items, next_item_id, items', next_item_id')
             /\ created' = created ]_vars

\* C17 as amended: the same while the store is below capacity; a full store
\* answers 507 before it looks at the body.
C17_BadCreateIs400BelowCapacity ==
    [][ BadCreate(last')
          => /\ RefusedCreate(last',
                              IF Len(items) >= MAX_ITEMS THEN 507 ELSE 400,
                              items, next_item_id, items', next_item_id')
             /\ created' = created ]_vars

\* {"name":123} was answered 400 by a store that holds items and is below
\* capacity.
C17_Witness ==
    /\ IsCreateRequest(last)
    /\ last.body = JObject(JNumber(1230), Absent)
    /\ last.handler = "handle_create_item"
    /\ Len(items) \in 2 .. (MAX_ITEMS - 1)
    /\ Answered(last, 400)
    /\ last.replies[1].body.kind = "error"

\* C18: for every request handed to router_dispatch exactly one response is
\* sent: mg_http_reply is called once, on every path through the dispatcher,
\* the handlers and the formatter, the plain-text fallback and the handlers'
\* allocation-failure branches included.
C18_ExactlyOneReply ==
    last.method # "" => Len(last.replies) = 1

\* The list handler could not allocate its root object, the error formatter
\* could not print the envelope, and the plain-text 500 was the one reply.
C18_Witness ==
    /\ last.handler = "handle_get_all_items"
    /\ last.oom = {"obj", "err_print"}
    /\ last.replies = PlainFallback
    /\ Len(last.replies) = 1

Handlers ==
    {"handle_root", "handle_get_all_items", "handle_get_item_by_id",
     "handle_create_item", "handle_update_item", "handle_delete_item"}

\* The handlers that work on the item store.
StoreHandlers == Handlers \ {"handle_root"}

\* The ids handed out from log_before to log_after.
NewIds(log_before, log_after) ==
    SubSeq(log_after, Len(log_before) + 1, Len(log_after))

\* 1 when request l appended an item of its own to a store of base items.
OwnItems(l, base, after) ==
    IF l.handler = "handle_create_item" /\ Len(after) > base THEN 1 ELSE 0

\* The handler of l found the store empty with the counter at n and seeded it
\* before anything else: the first ids it handed out are n and n + 1, in this
\* order, they went to ("First Item", 100) and ("Second Item", 200), and both
\* are in the store afterwards (but for the one item l itself names).
SeededFirst(l, n, after, log_before, log_after) ==
    LET new == NewIds(log_before, log_after)
    IN  /\ Len(new) = 2 + OwnItems(l, 2, after)
        /\ SubSeq(new, 1, 2) = << n, n + 1 >>
        /\ \A s \in 1 .. 2 :
              SeedItems(n)[s].id # NamedId(l.uri)
                => \E k \in 1 .. Len(after) : after[k] = SeedItems(n)[s]
        /\ \A j, k \in 1 .. Len(after) :
              (after[j].id = n /\ after[k].id = n + 1) => j < k

\* The handler of l found items in the store and the seeding step changed
\* nothing: no sample item was added and no id handed out for one.
NotSeeded(l, before, after, log_before, log_after) ==
    /\ Len(NewIds(log_before, log_after)) = OwnItems(l, Len(before), after)
    /\ Len(after) <= Len(before) + OwnItems(l, Len(before), after)

\* C19 as claimed: whenever any of the six handlers, the root greeting
\* included, runs on the empty store, the store is first seeded with
\* ("First Item", 100) and ("Second Item", 200); on a store that holds items
\* the seeding step changes nothing.
C19_EveryHandlerSeeds ==
    [][ last'.handler \in Handlers
          => IF items = <<>>
             THEN SeededFirst(last', next_item_id, items', assigned, assigned')
             ELSE NotSeeded(last', items, items', assigned, assigned') ]_vars

\* C19 as amended: the same for the five handlers that work on the store;
\* the root greeting never seeds and leaves the store as it is.
C19_StoreHandlersSeed ==
    [][ /\ last'.handler \in StoreHandlers
          => IF items = <<>>
             THEN SeededFirst(last', next_item_id, items', assigned, assigned')
             ELSE NotSeeded(last', items, items', assigned, assigned')
        /\ last'.handler = "handle_root"
          => /\ items' = items
             /\ next_item_id' = next_item_id
             /\ assigned' = assigned ]_vars

\* The update handler was the one to seed: it answered 400 and the two sample
\* items, with ids 1 and 2, are all there is.
C19_Witness ==
    /\ last.handler = "handle_update_item"
    /\ Answered(last, 400)
    /\ items = SeedItems(1)
    /\ assigned = << 1, 2 >>
    /\ next_item_id = 3

C20_Reseeded ==
    /\ Len(assigned) >= 4
    /\ \E k \in 1 .. Len(items) :
          items[k].name = "First Item" /\ items[k].id > 2

LongNamed(l) ==
    /\ l.body.kind = "object"
    /\ l.body.name.t = "string"
    /\ Len(l.body.name.s) >= NAME_SIZE

\* C22: a create or an update whose name is 64 bytes or longer is answered
\* 400 and nothing of it reaches the store: the create adds no item and does
\* not advance next_item_id, and the update leaves the name and the value of
\* the item it targets as they were, even when the body carries a valid value.
C22_LongNameIs400 ==
    /\ [][ (IsCreateRequest(last') /\ LongNamed(last'))
             => RefusedCreate(last', 400, items, next_item_id,
                              items', next_item_id') ]_vars
    /\ [][ \A k \in 1 .. Len(items) :
             (/\ last'.method = "PUT"
              /\ last'.uri = ItemUri(items[k].id)
              /\ LongNamed(last'))
               => /\ AnsweredError(last', 400)
                  /\ Len(items') = Len(items)
                  /\ items'[k] = items[k] ]_vars

\* A PUT on the live item 1 with a 64-byte name and a valid value was
\* answered 404 by the dispatcher; the item is as it was.
C22_Witness ==
    /\ last.method = "PUT"
    /\ last.uri = ItemUri(1)
    /\ last.body = JObject(JString(LongName), JNumber(90))
    /\ Len(items) >= 1
    /\ items[1] = SeedItems(1)[1]
    /\ last.handler = "none"
    /\ Answered(last, 404)

\* The body of l is not a JSON object: bytes that do not parse, or a
\* well-formed array or scalar.
NonObject(l) == l.body.kind # "object"

\* C23: a POST, or a PUT to a live id, whose body is not a JSON object is
\* answered 400 and changes no item.
C23_NonObjectIs400 ==
    /\ [][ (IsCreateRequest(last') /\ NonObject(last'))
             => RefusedCreate(last', 400, items, next_item_id,
                              items', next_item_id') ]_vars
    /\ [][ \A k \in 1 .. Len(items) :
             (/\ last'.method = "PUT"
              /\ last'.uri = ItemUri(items[k].id)
              /\ NonObject(last'))
               => /\ AnsweredError(last', 400)
                  /\ items' = items ]_vars

\* A PUT on the live item 1 with a JSON array for a body was answered 404 by
\* the dispatcher.
C23_Witness ==
    /\ last.method = "PUT"
    /\ last.uri = ItemUri(1)
    /\ last.body = JOther("array")
    /\ 1 \in Ids(items)
    /\ last.handler = "none"
    /\ Answered(last, 404)

\* A PUT with a JSON array for a body was answered 200.  No reachable state
\* is like this as long as no PUT reaches a live item; handle_update_item
\* itself takes a body that parses and is not an object for a body with
\* neither member.
C23_ArrayUpdateAccepted ==
    /\ last.method = "PUT"
    /\ last.body = JOther("array")
    /\ Answered(last, 200)

IsListRequest(l) == l.method = "GET" /\ l.uri = "/api/v1/items"

\* The list request left the store as lazy seeding leaves it.
ListFrame(before, before_next, after, after_next) ==
    /\ after = SeenBy(before, before_next)
    /\ after_next = IF before = <<>> THEN before_next + 2 ELSE before_next

\* listed holds items of its only, each at most once, in the order of its.
IsSubsequence(listed, its) ==
    \E pos \in [1 .. Len(listed) -> 1 .. Len(its)] :
        /\ \A i \in 1 .. Len(listed) : its[pos[i]] = listed[i]
        /\ \A i, j \in 1 .. Len(listed) : i < j => pos[i] < pos[j]

\* C24 as claimed: GET /api/v1/items is answered 200 with every live item
\* exactly once, in store order, each with its id, name and value, and
\* changes nothing beyond lazy seeding.
C24_ListsEveryItem ==
    [][ IsListRequest(last')
          => /\ Answered(last', 200)
             /\ last'.replies[1].body.kind = "items"
             /\ last'.replies[1].body.its = items'
             /\ ListFrame(items, next_item_id, items', next_item_id') ]_vars

\* C24 as amended: so it is when no allocation fails while the request is
\* served.  When one fails the answer is 500, or 200 with a list that leaves
\* out the items whose JSON object could not be allocated; the store changes
\* by lazy seeding alone in every case.
C24_ListsEveryItemUnlessAllocFails ==
    [][ IsListRequest(last')
          => /\ ListFrame(items, next_item_id, items', next_item_id')
             /\ last'.oom = {}
                   => /\ Answered(last', 200)
                      /\ last'.replies[1].body.kind = "items"
                      /\ last'.replies[1].body.its = items'
             /\ last'.oom # {}
                   => \/ AnsweredError(last', 500)
                      \/ /\ Answered(last', 200)
                         /\ last'.replies[1].body.kind = "items"
                         /\ IsSubsequence(last'.replies[1].body.its, items') ]_vars

\* The list of a store that holds seeded and created items was sent whole.
C24_Witness ==
    /\ IsListRequest(last)
    /\ last.oom = {}
    /\ Len(items) >= 4
    /\ Answered(last, 200)
    /\ last.replies[1].body.its = items

\* The first item's JSON object could not be allocated: the list was
\* answered 200 without it.
C24_ShortList ==
    /\ IsListRequest(last)
    /\ last.oom = {"item1"}
    /\ Answered(last, 200)
    /\ last.replies[1].body.its = Tail(items)

----------------------------------------------------------------------------
(* Domain names, as the validator's documentation describes them *)

\* The positions that bound the labels of s: before the first byte, every
\* dot, and past the last byte.
LabelBounds(s) == {0, Len(s) + 1} \cup {i \in 1 .. Len(s) : Ch(s, i) = "."}

\* The bound that follows bound a.
NextBound(s, a) ==
    CHOOSE b \in LabelBounds(s) :
        b > a /\ \A x \in LabelBounds(s) : x > a => b <= x

\* The label between two consecutive bounds is well formed: 1 to 63 bytes,
\* letters, digits and hyphens only, no hyphen first or last.
GoodLabel(s, a, b) ==
    /\ b - a - 1 \in 1 .. 63
    /\ \A i \in (a + 1) .. (b - 1) :
          IsLetter(Ch(s, i)) \/ Ch(s, i) \in DigitChars \/ Ch(s, i) = "-"
    /\ Ch(s, a + 1) # "-"
    /\ Ch(s, b - 1) # "-"

\* The last label has at least 2 bytes, all letters.
GoodTld(s) ==
    LET a == CHOOSE x \in LabelBounds(s) \ {Len(s) + 1} :
                 \A y \in LabelBounds(s) \ {Len(s) + 1} : y <= x
    IN  /\ Len(s) - a >= 2
        /\ \A i \in (a + 1) .. Len(s) : IsLetter(Ch(s, i))

DocumentedValid(d) ==
    /\ ~d.isNull
    /\ Len(d.str) \in 1 .. 253
    /\ \A a \in LabelBounds(d.str) \ {Len(d.str) + 1} :
          GoodLabel(d.str, a, NextBound(d.str, a))
    /\ GoodTld(d.str)

EndsInDot(s) == Len(s) >= 1 /\ Ch(s, Len(s)) = "."

\* s without its last byte.
WithoutLast(s) == SubSeq(s, 1, Len(s) - 1)

\* C26: the total length is measured without a trailing dot: a name that is
\* valid without a trailing dot is still valid with one dot appended, also
\* when the name alone is 253 bytes long.
C26_TrailingDotAccepted ==
    (/\ result # -1
     /\ ~domain.isNull
     /\ EndsInDot(domain.str)
     /\ is_valid_domain(CString(WithoutLast(domain.str))) = 1)
      => result = 1

\* example.com. was found invalid.
C26_Witness ==
    /\ ~domain.isNull
    /\ domain.str = "example.com."
    /\ is_valid_domain(CString("example.com")) = 1
    /\ result = 0

\* The routes of the table that router_dispatch's tests accept for a request.
MatchingRoutes(method, uri) ==
    {i \in 1 .. num_routes : RouteMatches(routes[i], method, uri)}

\* The loop of router_dispatch run on another table, from entry i on.
RECURSIVE DispatchIn(_, _, _, _)
DispatchIn(table, i, method, uri) ==
    IF i > Len(table) THEN "none"
    ELSE IF RouteMatches(table[i], method, uri) THEN table[i].handler
    ELSE DispatchIn(table, i + 1, method, uri)

\* The route table with its entries in the order perm.
Permuted(perm) == [i \in 1 .. num_routes |-> routes[perm[i]]]

\* C27: at most one entry of the route table matches a request, so the
\* handler router_dispatch selects, or the 404, is the same under every
\* permutation of the table's six entries.
C27_OrderIndependent ==
    last.method # ""
      => /\ Cardinality(MatchingRoutes(last.method, last.uri)) <= 1
         /\ \A perm \in Permutations(1 .. num_routes) :
               DispatchIn(Permuted(perm), 1, last.method, last.uri) = last.handler

\* GET /api/v1/items/ was served by the get-by-id handler, the one entry that
\* matches it.
C27_Witness ==
    /\ last.method = "GET"
    /\ last.uri = "/api/v1/items/"
    /\ last.handler = "handle_get_item_by_id"
    /\ Cardinality(MatchingRoutes(last.method, last.uri)) = 1

\* The statuses with which a handler refuses a request.
RefusalStatuses == {400, 404, 507}

\* A handler that works on the store answered l with the error envelope and
\* one of the refusal statuses.
RefusedByHandler(l) ==
    /\ l.handler \in StoreHandlers
    /\ \E status \in RefusalStatuses :
          Answered(l, status) /\ l.replies[1].body.kind = "error"

\* C28: a request that a handler answers 400, 404 or 507 changes items and
\* next_item_id only through lazy seeding: a non-empty store and its counter
\* are as before the request, an empty store holds exactly the two seeded
\* items afterwards and the counter has advanced by exactly 2.
C28_RefusalOnlySeeds ==
    [][ RefusedByHandler(last')
          => /\ items' = SeenBy(items, next_item_id)
             /\ next_item_id' = IF items = <<>> THEN next_item_id + 2
                                ELSE next_item_id
             /\ created' = created
             /\ deleted' = deleted ]_vars

\* A full store answered a create 507 and still holds MAX_ITEMS items.
C28_Witness ==
    /\ last.handler = "handle_create_item"
    /\ Answered(last, 507)
    /\ last.replies[1].body.kind = "error"
    /\ Len(items) = MAX_ITEMS
    /\ next_item_id = MAX_ITEMS + 1

\* The seeding case never happens: no step takes an empty store to a
\* refusal by a handler.  (Violated: the first request of a run can be one.)
C28_NeverRefusedOnEmptyStore ==
    [][ ~ (items = <<>> /\ RefusedByHandler(last')) ]_vars

=============================================================================
